---- MODULE Spec2Model ----
(***************************************************************************)
(* Model of input_pipeline.py (BERT/ALBERT model input pipelines).         *)
(*                                                                         *)
(* One behaviour is one call of a dataset builder followed by the          *)
(* iteration of the dataset it returned.  The builder records the schema   *)
(* (name_to_features), the options and the chain of dataset stages; the    *)
(* iteration actions interpret that chain record by record.                *)
(***************************************************************************)
EXTENDS Integers, Sequences, FiniteSets, TLC

VARIABLES
  builder,               \* which of the three builders is called
  file_path,             \* the input_file argument: a str or a list of paths
  seq_length,            \* argument
  batch_size,            \* argument
  is_training,           \* argument
  drop_remainder,        \* argument (create_classifier_dataset only)
  custom_training_loop,  \* FLAGS.custom_training_loop
  records,               \* the serialized records of the input files, in file order
  name_to_features,      \* the schema the builder declared
  pipeline,              \* the dataset stages the builder chained, in order
  auto_shard,            \* options.experimental_distribute.auto_shard
  status,                \* "new", "built" (being iterated), "end", "error"
  pos,                   \* index of the next record the source reads
  epoch_reads,           \* records read since the source was last (re)started
  buffer,                \* the shuffle stage's buffer
  pending,               \* elements the batch stage has gathered
  emitted,               \* the batches the dataset has produced so far
  example,               \* the last result of decode_record
  selected               \* the last result of _select_data_from_record

vars == <<builder, file_path, seq_length, batch_size, is_training, drop_remainder,
          custom_training_loop, records, name_to_features, pipeline, auto_shard,
          status, pos, epoch_reads, buffer, pending, emitted, example, selected>>

args == <<builder, file_path, seq_length, batch_size, is_training, drop_remainder,
          custom_training_loop, records>>

iter == <<pos, epoch_reads, buffer, pending, emitted, example, selected>>

(***************************************************************************)
(* Bounds of the model.                                                    *)
(***************************************************************************)
MaxSeqLen == 2
MaxBatchSize == 2
MaxRecords == 3
MaxFiles == 2
MaxDraws == 4

(***************************************************************************)
(* int64 values are four 16-bit words, most significant first, so that     *)
(* values outside the int32 range can be written down.                     *)
(***************************************************************************)
Word == 2^16
HalfWord == 2^15

\* tf.cast(t, tf.int32) of one int64 value: the low 32 bits, two's complement.
CastInt32(v) ==
  IF v[3] >= HalfWord THEN (v[3] - Word) * Word + v[4] ELSE v[3] * Word + v[4]

Small(n) == <<0, 0, 0, n>>

\* The first input id of record i: in range, above 2^32, negative, 2^31.
WideValue(i) ==
  CASE i = 1 -> <<0, 0, 0, 101>>
    [] i = 2 -> <<0, 1, 0, 102>>
    [] i = 3 -> <<65535, 65535, 65535, 65533>>
    [] OTHER -> <<0, 0, 32768, i>>

(***************************************************************************)
(* Schemas.  tf.io.FixedLenFeature(shape, dtype) has no default value      *)
(* here, so a record must carry the feature.                               *)
(***************************************************************************)
\* A feature declared with a default value.
FixedLenFeatureWithDefault(shape, dtype) ==
  [kind |-> "FixedLenFeature", shape |-> shape, dtype |-> dtype, has_default |-> TRUE]

FixedLenFeature(shape, dtype) ==
  [kind |-> "FixedLenFeature", shape |-> shape, dtype |-> dtype, has_default |-> FALSE]

\* create_classifier_dataset: name_to_features
ClassifierFeatures(sl) ==
  [n \in {"input_ids", "input_mask", "segment_ids", "label_ids", "is_real_example"} |->
     IF n \in {"input_ids", "input_mask", "segment_ids"}
       THEN FixedLenFeature(<<sl>>, "int64")
       ELSE FixedLenFeature(<<>>, "int64")]

\* create_squad_dataset: name_to_features, with the two keys added when training
SquadFeatures(sl, training) ==
  LET base == [n \in {"unique_ids", "input_ids", "input_mask", "segment_ids"} |->
                 IF n = "unique_ids"
                   THEN FixedLenFeature(<<>>, "int64")
                   ELSE FixedLenFeature(<<sl>>, "int64")]
      extra == [n \in {"start_positions", "end_positions"} |->
                  FixedLenFeature(<<>>, "int64")]
  IN  IF training THEN base @@ extra ELSE base

\* The squad_v2 schema with p_mask declared as a scalar.
SquadV2FeaturesScalarMask(sl, training) ==
  LET base == [n \in {"unique_ids", "input_ids", "input_mask", "segment_ids", "p_mask"} |->
                 CASE n \in {"unique_ids", "p_mask"} ->
                        FixedLenFeature(<<>>, IF n = "p_mask" THEN "float32" ELSE "int64")
                   [] n \in {"input_ids", "segment_ids"} -> FixedLenFeature(<<sl>>, "int64")
                   [] OTHER -> FixedLenFeature(<<sl>>, "float32")]
      extra == [n \in {"start_positions", "end_positions", "is_impossible"} |->
                  IF n = "is_impossible"
                    THEN FixedLenFeature(<<>>, "float32")
                    ELSE FixedLenFeature(<<>>, "int64")]
  IN  IF training THEN base @@ extra ELSE base

\* create_squad_dataset_v2: name_to_features, with the three keys added when training
SquadV2Features(sl, training) ==
  LET base == [n \in {"unique_ids", "input_ids", "input_mask", "segment_ids", "p_mask"} |->
                 CASE n = "unique_ids" -> FixedLenFeature(<<>>, "int64")
                   [] n \in {"input_ids", "segment_ids"} -> FixedLenFeature(<<sl>>, "int64")
                   [] OTHER -> FixedLenFeature(<<sl>>, "float32")]
      extra == [n \in {"start_positions", "end_positions", "is_impossible"} |->
                  IF n = "is_impossible"
                    THEN FixedLenFeature(<<>>, "float32")
                    ELSE FixedLenFeature(<<>>, "int64")]
  IN  IF training THEN base @@ extra ELSE base

(***************************************************************************)
(* Serialized records: a tf.Example maps feature names to an int64_list    *)
(* or a float_list.  The files hold what a writer for the builder's        *)
(* training schema writes; one record of a file may be malformed.          *)
(***************************************************************************)
Int64List(vs) == [kind |-> "int64_list", value |-> vs]
FloatList(vs) == [kind |-> "float_list", value |-> vs]

Variants == {"ok", "missing", "wrong_length", "wrong_type"}

WrittenValue(b, sl, i, n) ==
  CASE n = "input_ids" ->
         Int64List([k \in 1..sl |-> IF k = 1 THEN WideValue(i) ELSE Small(i + k)])
    [] n = "input_mask" ->
         IF b = "squad_v2" THEN FloatList([k \in 1..sl |-> 1])
                           ELSE Int64List([k \in 1..sl |-> Small(1)])
    [] n = "segment_ids" -> Int64List([k \in 1..sl |-> Small(k - 1)])
    [] n = "p_mask" -> FloatList([k \in 1..sl |-> k])
    [] n = "label_ids" -> Int64List(<<Small(i)>>)
    [] n = "is_real_example" -> Int64List(<<Small(1)>>)
    [] n = "unique_ids" -> Int64List(<<Small(1000 + i)>>)
    [] n = "start_positions" -> Int64List(<<Small(i)>>)
    [] n = "end_positions" -> Int64List(<<Small(i + 1)>>)
    [] OTHER -> FloatList(<<0>>)

WrittenNames(b) ==
  CASE b = "classifier" -> DOMAIN ClassifierFeatures(1)
    [] b = "squad" -> DOMAIN SquadFeatures(1, TRUE)
    [] OTHER -> DOMAIN SquadV2Features(1, TRUE)

MkRecord(b, sl, i, variant) ==
  LET names == IF variant = "missing" THEN WrittenNames(b) \ {"input_mask"}
                                      ELSE WrittenNames(b)
  IN  [n \in names |->
         CASE variant = "wrong_length" /\ n = "input_ids" ->
                Int64List([k \in 1..(sl + 1) |-> Small(k)])
           [] variant = "wrong_type" /\ n = "segment_ids" ->
                FloatList([k \in 1..sl |-> 0])
           [] OTHER -> WrittenValue(b, sl, i, n)]

(***************************************************************************)
(* tf.io.parse_single_example and decode_record.                           *)
(***************************************************************************)
NumElements(shape) == IF shape = <<>> THEN 1 ELSE shape[1]

ListKind(dtype) == IF dtype = "int64" THEN "int64_list" ELSE "float_list"

\* Whether the record carries feature n as the schema declares it.
FeatureMatches(record, n, f) ==
  /\ n \in DOMAIN record
  /\ record[n].kind = ListKind(f.dtype)
  /\ Len(record[n].value) = NumElements(f.shape)

Tensor(dtype, shape, value) == [dtype |-> dtype, shape |-> shape, value |-> value]

ParseError == [error |-> "InvalidArgumentError"]

IsError(v) == "error" \in DOMAIN v

\* The value parse_single_example gives a missing feature that has a default.
DefaultValue(f) ==
  [k \in 1..NumElements(f.shape) |-> IF f.dtype = "int64" THEN Small(0) ELSE 0]

\* tf.io.parse_single_example(record, name_to_features)
ParseSingleExample(record, ntf) ==
  IF \E n \in DOMAIN ntf :
       /\ ~ FeatureMatches(record, n, ntf[n])
       /\ ~ (n \notin DOMAIN record /\ ntf[n].has_default)
    THEN ParseError
    ELSE [n \in DOMAIN ntf |->
            Tensor(ntf[n].dtype, ntf[n].shape,
                   IF n \in DOMAIN record THEN record[n].value
                                          ELSE DefaultValue(ntf[n]))]

\* The loop of decode_record without the cast.
CastTensorSkipped(t) == t

\* The loop body of decode_record on one tensor.
CastTensor(t) ==
  IF t.dtype = "int64"
    THEN Tensor("int32", t.shape, [k \in DOMAIN t.value |-> CastInt32(t.value[k])])
    ELSE t

\* decode_record(record, name_to_features)
DecodeRecord(record, ntf) ==
  LET parsed == ParseSingleExample(record, ntf)
  IN  IF IsError(parsed) THEN parsed
      ELSE [n \in DOMAIN parsed |-> CastTensor(parsed[n])]

(***************************************************************************)
(* _select_data_from_record of the three builders.                         *)
(***************************************************************************)
\* The classifier selection with input_mask and segment_ids exchanged.
SelectClassifierSwapped(record) ==
  [x |-> [n \in {"input_word_ids", "input_mask", "input_type_ids"} |->
            CASE n = "input_word_ids" -> record["input_ids"]
              [] n = "input_mask" -> record["segment_ids"]
              [] OTHER -> record["input_mask"]],
   y |-> record["label_ids"]]

\* create_classifier_dataset._select_data_from_record
SelectClassifier(record) ==
  [x |-> [n \in {"input_word_ids", "input_mask", "input_type_ids"} |->
            CASE n = "input_word_ids" -> record["input_ids"]
              [] n = "input_mask" -> record["input_mask"]
              [] OTHER -> record["segment_ids"]],
   y |-> record["label_ids"]]

SquadLabelNames == {"start_positions", "end_positions"}

SquadV2LabelNames == {"start_positions", "end_positions", "is_impossible"}

\* The loop with the label test inverted for one name: unique_ids is dropped.
SplitByNameDropping(record, labels) ==
  [x |-> [n \in (DOMAIN record \ labels) \ {"unique_ids"} |-> record[n]],
   y |-> [n \in DOMAIN record \cap labels |-> record[n]]]

\* The loop of the two squad _select_data_from_record functions.
SplitByName(record, labels) ==
  [x |-> [n \in DOMAIN record \ labels |-> record[n]],
   y |-> [n \in DOMAIN record \cap labels |-> record[n]]]

\* create_squad_dataset._select_data_from_record
SelectSquad(record) == SplitByName(record, SquadLabelNames)

\* The squad_v2 selection testing the two names create_squad_dataset tests.
SelectSquadV2TwoLabels(record) == SplitByName(record, {"start_positions", "end_positions"})

\* create_squad_dataset_v2._select_data_from_record
SelectSquadV2(record) == SplitByName(record, SquadV2LabelNames)

SelectDataFromRecord(b, record) ==
  CASE b = "classifier" -> SelectClassifier(record)
    [] b = "squad" -> SelectSquad(record)
    [] OTHER -> SelectSquadV2(record)

(***************************************************************************)
(* The dataset a builder returns: its options and its chain of stages.     *)
(***************************************************************************)
Stage(op, n, flag) == [op |-> op, n |-> n, flag |-> flag]

ClassifierShuffleBuffer == 1024
SquadShuffleBuffer == 100
PrefetchBuffer == 1024

\* The input_file argument: a str, or a list of paths.
StrPath == [is_str |-> TRUE, paths |-> <<"train.tf_record">>]
PathList(k) == [is_str |-> FALSE, paths |-> [j \in 1..k |-> "part.tf_record"]]

\* The condition without the single-element list.
DisablesAutoShardStrOnly(input_file) == input_file.is_str

\* input_fn: the condition under which auto sharding is disabled
DisablesAutoShard(input_file) == input_file.is_str \/ Len(input_file.paths) = 1

\* input_fn: TFRecordDataset, map(decode_record), with_options
InputFn(input_file) ==
  [stages |-> <<Stage("decode", 0, FALSE)>>,
   auto_shard |-> IF DisablesAutoShard(input_file) THEN "off" ELSE "default"]

\* The stages with repeat chained before shuffle.
TrainingStagesSwapped(training, custom_loop, shuffle_buffer) ==
  IF training
    THEN (IF custom_loop THEN <<Stage("repeat", 0, FALSE)>> ELSE <<>>)
           \o <<Stage("shuffle", shuffle_buffer, TRUE)>>
    ELSE <<>>

\* The stages a builder chains after the selection: shuffle and repeat when
\* training, then batch and prefetch.
TrainingStages(training, custom_loop, shuffle_buffer) ==
  IF training
    THEN <<Stage("shuffle", shuffle_buffer, TRUE)>>
           \o (IF custom_loop THEN <<Stage("repeat", 0, FALSE)>> ELSE <<>>)
    ELSE <<>>

BuildPipeline(input_file, training, custom_loop, shuffle_buffer, bs, drop) ==
  InputFn(input_file).stages
    \o <<Stage("select", 0, FALSE)>>
    \o TrainingStages(training, custom_loop, shuffle_buffer)
    \o <<Stage("batch", bs, drop), Stage("prefetch", PrefetchBuffer, FALSE)>>

Ops(p) == [k \in DOMAIN p |-> p[k].op]

HasStage(p, op) == \E k \in DOMAIN p : p[k].op = op

StageOf(p, op) == p[CHOOSE k \in DOMAIN p : p[k].op = op]

(***************************************************************************)
(* Initial states: the arguments of one call and the contents of the       *)
(* input files.  Nothing is built yet.                                     *)
(***************************************************************************)
NoValue == [none |-> TRUE]

Builders == {"classifier", "squad", "squad_v2"}

InputFiles == {StrPath} \cup {PathList(k) : k \in 0..MaxFiles}

\* Files of n records of which record `bad` (0: none) is malformed as `variant`.
FileContents(b, sl, n, bad, variant) ==
  [i \in 1..n |-> MkRecord(b, sl, i, IF i = bad THEN variant ELSE "ok")]

Init ==
  /\ builder \in Builders
  /\ file_path \in InputFiles
  /\ seq_length \in 1..MaxSeqLen
  /\ batch_size \in 1..MaxBatchSize
  /\ is_training \in BOOLEAN
  /\ drop_remainder \in (IF builder = "classifier" THEN BOOLEAN ELSE {FALSE})
  /\ custom_training_loop \in BOOLEAN
  /\ \E n \in 0..MaxRecords, bad \in 0..MaxRecords, variant \in Variants \ {"ok"} :
       /\ bad <= n
       /\ file_path.paths = <<>> => n = 0
       /\ records = FileContents(builder, seq_length, n, bad, variant)
  /\ name_to_features = <<>>
  /\ pipeline = <<>>
  /\ auto_shard = "default"
  /\ status = "new"
  /\ pos = 1
  /\ epoch_reads = 0
  /\ buffer = <<>>
  /\ pending = <<>>
  /\ emitted = <<>>
  /\ example = NoValue
  /\ selected = NoValue

(***************************************************************************)
(* The three builders.                                                     *)
(***************************************************************************)
Built(ntf, p) ==
  /\ status = "new"
  /\ name_to_features' = ntf
  /\ pipeline' = p
  /\ auto_shard' = InputFn(file_path).auto_shard
  /\ status' = "built"
  /\ UNCHANGED <<args, iter>>

\* create_classifier_dataset batching with drop_remainder=False, as the squad
\* builders do, whatever the argument.
CreateClassifierDatasetKeepingRemainder ==
  /\ builder = "classifier"
  /\ Built(ClassifierFeatures(seq_length),
           BuildPipeline(file_path, is_training, custom_training_loop,
                         ClassifierShuffleBuffer, batch_size, FALSE))

CreateClassifierDataset ==
  /\ builder = "classifier"
  /\ Built(ClassifierFeatures(seq_length),
           BuildPipeline(file_path, is_training, custom_training_loop,
                         ClassifierShuffleBuffer, batch_size, drop_remainder))

CreateSquadDataset ==
  /\ builder = "squad"
  /\ Built(SquadFeatures(seq_length, is_training),
           BuildPipeline(file_path, is_training, custom_training_loop,
                         SquadShuffleBuffer, batch_size, FALSE))

CreateSquadDatasetV2 ==
  /\ builder = "squad_v2"
  /\ Built(SquadV2Features(seq_length, is_training),
           BuildPipeline(file_path, is_training, custom_training_loop,
                         SquadShuffleBuffer, batch_size, FALSE))

(***************************************************************************)
(* Iterating the dataset.  Each action is one stage of the chain moving    *)
(* one element; prefetch only buffers and changes no element.              *)
(***************************************************************************)
BatchStage == StageOf(pipeline, "batch")

SourceExhausted == pos > Len(records)

\* The elements the batch stage has taken so far; a repeated dataset never
\* ends, and the model follows it for MaxDraws elements.
Drawn == Len(emitted) * BatchStage.n + Len(pending)

RemoveAt(s, j) == [k \in 1..(Len(s) - 1) |-> IF k < j THEN s[k] ELSE s[k + 1]]

\* The source reads the next record and the two map stages decode it and
\* select from it; a failed decode ends the iteration with the error.
MapNext ==
  /\ status = "built"
  /\ ~ SourceExhausted
  /\ IF HasStage(pipeline, "shuffle")
       THEN Len(buffer) < StageOf(pipeline, "shuffle").n
       ELSE Len(pending) < BatchStage.n
  /\ LET ex == DecodeRecord(records[pos], name_to_features)
     IN  IF IsError(ex)
           THEN /\ status' = "error"
                /\ example' = ex
                /\ UNCHANGED <<pos, epoch_reads, buffer, pending, selected>>
           ELSE LET el == SelectDataFromRecord(builder, ex)
                IN  /\ example' = ex
                    /\ selected' = el
                    /\ pos' = pos + 1
                    /\ epoch_reads' = epoch_reads + 1
                    /\ IF HasStage(pipeline, "shuffle")
                         THEN buffer' = Append(buffer, el) /\ UNCHANGED pending
                         ELSE pending' = Append(pending, el) /\ UNCHANGED buffer
                    /\ UNCHANGED status
  /\ UNCHANGED <<args, name_to_features, pipeline, auto_shard, emitted>>

\* The shuffle stage hands a random element of its buffer to the batch stage,
\* once the buffer is full or the source has nothing left.
ShuffleEmit ==
  /\ status = "built"
  /\ HasStage(pipeline, "shuffle")
  /\ buffer # <<>>
  /\ Len(buffer) = StageOf(pipeline, "shuffle").n \/ SourceExhausted
  /\ Len(pending) < BatchStage.n
  /\ HasStage(pipeline, "repeat") => Drawn < MaxDraws
  /\ \E j \in DOMAIN buffer :
       /\ pending' = Append(pending, buffer[j])
       /\ buffer' = RemoveAt(buffer, j)
  /\ UNCHANGED <<args, name_to_features, pipeline, auto_shard, status, pos,
                 epoch_reads, emitted, example, selected>>

\* The repeat stage starts its input again when it ends, unless it was empty.
RepeatRestart ==
  /\ status = "built"
  /\ HasStage(pipeline, "repeat")
  /\ SourceExhausted
  /\ buffer = <<>>
  /\ epoch_reads > 0
  /\ Drawn < MaxDraws
  /\ pos' = 1
  /\ epoch_reads' = 0
  /\ UNCHANGED <<args, name_to_features, pipeline, auto_shard, status, buffer,
                 pending, emitted, example, selected>>

\* The batch stage emits a full batch.
BatchEmit ==
  /\ status = "built"
  /\ Len(pending) = BatchStage.n
  /\ emitted' = Append(emitted, pending)
  /\ pending' = <<>>
  /\ UNCHANGED <<args, name_to_features, pipeline, auto_shard, status, pos,
                 epoch_reads, buffer, example, selected>>

\* The input of the batch stage ends: the partial batch is emitted unless
\* drop_remainder, and the dataset ends.
EndOfSequence ==
  /\ status = "built"
  /\ SourceExhausted
  /\ buffer = <<>>
  /\ Len(pending) < BatchStage.n
  /\ HasStage(pipeline, "repeat") => epoch_reads = 0
  /\ emitted' = IF pending # <<>> /\ ~ BatchStage.flag
                  THEN Append(emitted, pending) ELSE emitted
  /\ pending' = <<>>
  /\ status' = "end"
  /\ UNCHANGED <<args, name_to_features, pipeline, auto_shard, pos, epoch_reads,
                 buffer, example, selected>>

Next ==
  \/ CreateClassifierDataset
  \/ CreateSquadDataset
  \/ CreateSquadDatasetV2
  \/ MapNext
  \/ ShuffleEmit
  \/ RepeatRestart
  \/ BatchEmit
  \/ EndOfSequence

Spec == Init /\ [][Next]_vars

(***************************************************************************)
(* Vocabulary of the properties.                                           *)
(***************************************************************************)
IsNoValue(v) == "none" \in DOMAIN v

IsTensor(v) == "dtype" \in DOMAIN v

Range(f) == {f[k] : k \in DOMAIN f}

\* The elements of the batches emitted so far.
Emitted == UNION {Range(emitted[k]) : k \in DOMAIN emitted}

\* Every element that left the selection stage and is still held or was emitted.
Produced == Emitted \cup Range(pending) \cup Range(buffer)

\* The tensors an element (x, y) holds.
TensorsOf(el) ==
  Range(el.x) \cup (IF IsTensor(el.y) THEN {el.y} ELSE Range(el.y))

RECURSIVE Flatten(_)
Flatten(batches) ==
  IF batches = <<>> THEN <<>> ELSE Head(batches) \o Flatten(Tail(batches))

Decoded == status # "new" /\ ~ IsNoValue(example) /\ ~ IsError(example)

----------------------------------------------------------------------------
\* C1: decode_record returns a mapping with exactly the schema's field names
\* in which every field declared int64 is int32 and every other field keeps
\* its declared type; no element of any builder's dataset holds an int64 tensor.
C1_DecodeDowncasts ==
  /\ Decoded =>
       /\ DOMAIN example = DOMAIN name_to_features
       /\ \A n \in DOMAIN example :
            example[n].dtype = IF name_to_features[n].dtype = "int64"
                                 THEN "int32" ELSE name_to_features[n].dtype
  /\ \A el \in Produced : \A t \in TensorsOf(el) : t.dtype # "int64"

\* A squad_v2 record (int64 and float32 fields, and more fields than the
\* evaluation schema declares) was decoded and emitted, its first input id
\* 2^32 + 102 cast to 102.
C1_Witness ==
  /\ Decoded
  /\ builder = "squad_v2"
  /\ ~ is_training
  /\ example["input_ids"].value[1] = 102
  /\ example["input_mask"].dtype = "float32"
  /\ Emitted # {}

----------------------------------------------------------------------------
\* The selection step split the decoded record into two mappings keyed by
\* field name that together hold every decoded field once, unchanged.
SplitsRecord(record, el) ==
  /\ ~ IsTensor(el.x)
  /\ ~ IsTensor(el.y)
  /\ DOMAIN el.x \cup DOMAIN el.y = DOMAIN record
  /\ DOMAIN el.x \cap DOMAIN el.y = {}
  /\ \A n \in DOMAIN el.x : el.x[n] = record[n]
  /\ \A n \in DOMAIN el.y : el.y[n] = record[n]

\* C2 as stated: in all three builders the selection step splits each decoded
\* record into a feature mapping and a label mapping holding every decoded
\* field exactly once under its own name.
C2_AllBuildersSplit == Decoded => SplitsRecord(example, selected)

\* C2 amended: the two squad builders split the decoded record that way; the
\* classifier builder returns the three sequence fields under the keys
\* input_word_ids, input_mask and input_type_ids, the bare label_ids tensor
\* as y, and drops is_real_example.
C2_SquadBuildersSplit ==
  Decoded =>
    IF builder \in {"squad", "squad_v2"}
      THEN SplitsRecord(example, selected)
      ELSE /\ DOMAIN selected.x = {"input_word_ids", "input_mask", "input_type_ids"}
           /\ selected.x["input_word_ids"] = example["input_ids"]
           /\ selected.x["input_mask"] = example["input_mask"]
           /\ selected.x["input_type_ids"] = example["segment_ids"]
           /\ selected.y = example["label_ids"]
           /\ IsTensor(selected.y)
           /\ "is_real_example" \in DOMAIN example

\* A squad training record was split into features and two labels.
C2_Witness ==
  /\ Decoded
  /\ builder = "squad"
  /\ is_training
  /\ DOMAIN selected.y = {"start_positions", "end_positions"}
  /\ "unique_ids" \in DOMAIN selected.x

----------------------------------------------------------------------------
\* The position of a stage in the order decode, select, shuffle, repeat,
\* batch, prefetch.
StageRank(op) ==
  CASE op = "decode" -> 1
    [] op = "select" -> 2
    [] op = "shuffle" -> 3
    [] op = "repeat" -> 4
    [] op = "batch" -> 5
    [] op = "prefetch" -> 6
    [] OTHER -> 0

\* C3: shuffle is applied iff is_training, repeat iff is_training and
\* custom_training_loop, decode, select, batch and prefetch always, each once
\* and in the order decode, select, shuffle, repeat, batch, prefetch.
C3_StagesFollowMode ==
  status # "new" =>
    /\ HasStage(pipeline, "shuffle") <=> is_training
    /\ HasStage(pipeline, "repeat") <=> (is_training /\ custom_training_loop)
    /\ \A op \in {"decode", "select", "batch", "prefetch"} : HasStage(pipeline, op)
    /\ \A k \in DOMAIN pipeline : StageRank(pipeline[k].op) > 0
    /\ \A j, k \in DOMAIN pipeline :
         j < k => StageRank(pipeline[j].op) < StageRank(pipeline[k].op)

\* A training dataset with the custom training loop has all six stages and is
\* iterated past the end of its first epoch.
C3_Witness ==
  /\ status = "built"
  /\ is_training
  /\ custom_training_loop
  /\ Ops(pipeline) = <<"decode", "select", "shuffle", "repeat", "batch", "prefetch">>
  /\ emitted # <<>>
  /\ Drawn > Len(records)

----------------------------------------------------------------------------
\* What the decode and selection stages make of record i of the files.
ElementOf(i) ==
  SelectDataFromRecord(builder, DecodeRecord(records[i], name_to_features))

\* C4: in evaluation mode the concatenated batches are a prefix of the
\* records in file order; when the dataset ends the prefix is the whole
\* sequence, or with create_classifier_dataset's drop_remainder the longest
\* prefix whose length is a multiple of batch_size.
C4_EvalKeepsFileOrder ==
  (status # "new" /\ ~ is_training) =>
    LET flat == Flatten(emitted)
    IN  /\ Len(flat) <= Len(records)
        /\ \A k \in DOMAIN flat : flat[k] = ElementOf(k)
        /\ status = "end" =>
             Len(flat) = IF builder = "classifier" /\ drop_remainder
                           THEN (Len(records) \div batch_size) * batch_size
                           ELSE Len(records)

\* An evaluation run of the classifier builder over three records in batches
\* of two with drop_remainder ended after one batch.
C4_Witness ==
  /\ status = "end"
  /\ ~ is_training
  /\ builder = "classifier"
  /\ drop_remainder
  /\ Len(records) = 3
  /\ batch_size = 2
  /\ Len(emitted) = 1

----------------------------------------------------------------------------
\* C5: auto sharding is disabled when input_file is a str or a list of one
\* path, and is left at the default for a list of two or more paths.
C5_AutoShardSingleFile ==
  status # "new" =>
    /\ (file_path.is_str \/ Len(file_path.paths) = 1) => auto_shard = "off"
    /\ (~ file_path.is_str /\ Len(file_path.paths) >= 2) => auto_shard = "default"

\* A dataset was built from a list holding a single path.
C5_Witness ==
  /\ status = "built"
  /\ ~ file_path.is_str
  /\ Len(file_path.paths) = 1
  /\ auto_shard = "off"

----------------------------------------------------------------------------
\* Whether record r carries every declared field with the declared type and
\* number of values.
MatchesSchema(r) ==
  \A n \in DOMAIN name_to_features :
    /\ n \in DOMAIN r
    /\ r[n].kind = (IF name_to_features[n].dtype = "int64"
                      THEN "int64_list" ELSE "float_list")
    /\ Len(r[n].value) = (IF name_to_features[n].shape = <<>>
                            THEN 1 ELSE name_to_features[n].shape[1])

\* C6: a record that does not match the schema makes the dataset fail: the
\* source never moves past it, the dataset never ends normally after it, and
\* every element the dataset holds or emitted is the whole decoded form of a
\* matching record; an error is raised only by such a record.
C6_MismatchPropagates ==
  status # "new" =>
    /\ \A i \in 1..(pos - 1) : MatchesSchema(records[i])
    /\ status = "end" => \A i \in DOMAIN records : MatchesSchema(records[i])
    /\ status = "error" => IsError(example) /\ ~ MatchesSchema(records[pos])
    /\ \A el \in Produced :
         \E i \in DOMAIN records : MatchesSchema(records[i]) /\ el = ElementOf(i)

\* An evaluation run failed at a malformed record after emitting a batch.
C6_Witness ==
  /\ status = "error"
  /\ IsError(example)
  /\ emitted # <<>>
  /\ pos > 1

----------------------------------------------------------------------------
\* C7: input_ids, input_mask, segment_ids and squad_v2's p_mask are declared
\* fixed-length of shape [seq_length], every other declared field is a
\* fixed-length scalar.
C7_SchemaShapes ==
  status # "new" =>
    /\ DOMAIN name_to_features \subseteq
         {"input_ids", "input_mask", "segment_ids", "p_mask", "label_ids",
          "is_real_example", "unique_ids", "start_positions", "end_positions",
          "is_impossible"}
    /\ {"input_ids", "input_mask", "segment_ids"} \subseteq DOMAIN name_to_features
    /\ "p_mask" \in DOMAIN name_to_features <=> builder = "squad_v2"
    /\ \A n \in DOMAIN name_to_features :
         /\ name_to_features[n].kind = "FixedLenFeature"
         /\ name_to_features[n].shape =
              IF n \in {"input_ids", "input_mask", "segment_ids", "p_mask"}
                THEN <<seq_length>> ELSE <<>>

\* The squad_v2 training schema was declared for seq_length 2.
C7_Witness ==
  /\ status = "built"
  /\ builder = "squad_v2"
  /\ is_training
  /\ seq_length = 2
  /\ Cardinality(DOMAIN name_to_features) = 8

----------------------------------------------------------------------------
\* C8: in the squad builders, when training every emitted element's label
\* mapping has exactly start_positions and end_positions (and is_impossible
\* in v2) and its feature mapping the remaining declared fields; when not
\* training those fields are not declared, the label mapping is empty and
\* the feature mapping holds all declared fields.
C8_SquadLabelsOnlyInTraining ==
  (status # "new" /\ builder \in {"squad", "squad_v2"}) =>
    LET labels == IF builder = "squad"
                    THEN {"start_positions", "end_positions"}
                    ELSE {"start_positions", "end_positions", "is_impossible"}
    IN  /\ is_training => labels \subseteq DOMAIN name_to_features
        /\ ~ is_training => labels \cap DOMAIN name_to_features = {}
        /\ \A el \in Emitted :
             /\ DOMAIN el.y = (IF is_training THEN labels ELSE {})
             /\ DOMAIN el.x = DOMAIN name_to_features \ labels

\* A squad_v2 training run emitted an element with three labels.
C8_Witness ==
  /\ builder = "squad_v2"
  /\ is_training
  /\ \E el \in Emitted : Cardinality(DOMAIN el.y) = 3 /\ Cardinality(DOMAIN el.x) = 5

----------------------------------------------------------------------------
\* The int32 tensor holding a feature of a serialized record.
Int32Of(r, n, shape) ==
  Tensor("int32", shape, [k \in DOMAIN r[n].value |-> CastInt32(r[n].value[k])])

\* C9: every element create_classifier_dataset emits is a pair (x, y), x with
\* exactly the keys input_word_ids, input_mask and input_type_ids holding a
\* record's input_ids, input_mask and segment_ids, y that record's label_ids;
\* is_real_example is required by the schema and is in neither x nor y.
C9_ClassifierElement ==
  (status # "new" /\ builder = "classifier") =>
    /\ "is_real_example" \in DOMAIN name_to_features
    /\ ~ name_to_features["is_real_example"].has_default
    /\ \A el \in Emitted :
         /\ DOMAIN el = {"x", "y"}
         /\ DOMAIN el.x = {"input_word_ids", "input_mask", "input_type_ids"}
         /\ \E i \in DOMAIN records :
              /\ el.x["input_word_ids"] = Int32Of(records[i], "input_ids", <<seq_length>>)
              /\ el.x["input_mask"] = Int32Of(records[i], "input_mask", <<seq_length>>)
              /\ el.x["input_type_ids"] = Int32Of(records[i], "segment_ids", <<seq_length>>)
              /\ el.y = Int32Of(records[i], "label_ids", <<>>)

\* The classifier builder emitted a batch of two elements of sequence length 2.
C9_Witness ==
  /\ builder = "classifier"
  /\ seq_length = 2
  /\ \E k \in DOMAIN emitted : Len(emitted[k]) = 2

====
